---- MODULE Spec2Model ----
(***************************************************************************)
(* Ledger server (express + better-sqlite3): the three tables, the write   *)
(* handlers POST /api/customers, /api/transactions, /api/reminders and the *)
(* read handler GET /api/summary.  Every handler is synchronous, so one    *)
(* handler is one atomic step of the server.                               *)
(*                                                                         *)
(* customers is the set of rows of the table, transactions and reminders   *)
(* are the rows in insertion (rowid) order.  A nullable value is NULL (the *)
(* empty tuple) or <<v>>.  request is the request the last handler ran on  *)
(* and response what it answered.  inflight holds the transaction requests *)
(* that have reached the server and wait for their handler to run.         *)
(*                                                                         *)
(* showAddTransaction, newTransaction and selectedCustomer are the state   *)
(* of the client's add-transaction dialog (React state of the App          *)
(* component); the server's handlers leave them alone.                     *)
(***************************************************************************)
EXTENDS Integers, Sequences, FiniteSets, TLC

VARIABLES customers, transactions, reminders, request, response, inflight,
          showAddTransaction, newTransaction, selectedCustomer

clientVars == <<showAddTransaction, newTransaction, selectedCustomer>>

vars ==
  <<customers, transactions, reminders, request, response, inflight, clientVars>>

NULL == <<>>

V(x) == x[1]

\* ---------------------------------------------------------------- bounds
MaxTx == 2

MaxReminders == 1

\* ---------------------------------------------------------------- helpers
Range(s) == {s[i] : i \in 1..Len(s)}

\* customerId != null: the empty string counts as present
NotNullish(x) == x # NULL

\* JavaScript truthiness of a string-or-undefined value: if (customerId)
Truthy(x) == x # NULL /\ x # <<"">>

\* The db handle: the three tables.
Db(c, t, r) == [customers |-> c, transactions |-> t, reminders |-> r]

Ok(db) == [ok |-> TRUE, error |-> "", db |-> db]

Throw(e, db) == [ok |-> FALSE, error |-> e, db |-> db]

\* ------------------------------------------------------------ SQL statements
\* the pragma foreign_keys is off: no reference is checked
ForeignKeyUnchecked(db, customerId) == TRUE

\* FOREIGN KEY(customerId) REFERENCES customers(id): a non-NULL reference
\* needs a parent row (better-sqlite3 opens its connections with the
\* foreign_keys pragma on, and the server never turns it off)
ForeignKeyHolds(db, customerId) ==
  customerId = NULL \/ \E c \in db.customers : <<c.id>> = customerId

\* the id column is no key
PrimaryKeyUnchecked(ids, id) == TRUE

\* id TEXT PRIMARY KEY
PrimaryKeyHolds(ids, id) == id \notin ids

\* INSERT OR REPLACE INTO customers: a row with the id is replaced
InsertCustomerOrReplace(db, body) ==
  IF body.name = NULL
    THEN Throw("NOT NULL constraint failed: customers.name", db)
  ELSE Ok([db EXCEPT !.customers =
             {c \in @ : c.id # body.id}
             \cup {[id |-> body.id, name |-> body.name, phone |-> body.phone,
                    balance |-> 0, type |-> body.type,
                    lastTransactionDate |-> NULL]}])

\* INSERT OR IGNORE INTO customers: a reused id is skipped without an error
InsertCustomerOrIgnore(db, body) ==
  IF body.name = NULL
    THEN Throw("NOT NULL constraint failed: customers.name", db)
  ELSE IF ~PrimaryKeyHolds({c.id : c \in db.customers}, body.id)
    THEN Ok(db)
  ELSE Ok([db EXCEPT !.customers =
             @ \cup {[id |-> body.id, name |-> body.name, phone |-> body.phone,
                      balance |-> 0, type |-> body.type,
                      lastTransactionDate |-> NULL]}])

\* INSERT INTO customers (id, name, phone, type, balance) VALUES (?, ?, ?, ?, 0)
InsertCustomer(db, body) ==
  IF body.name = NULL
    THEN Throw("NOT NULL constraint failed: customers.name", db)
  ELSE IF ~PrimaryKeyHolds({c.id : c \in db.customers}, body.id)
    THEN Throw("UNIQUE constraint failed: customers.id", db)
  ELSE Ok([db EXCEPT !.customers =
             @ \cup {[id |-> body.id, name |-> body.name, phone |-> body.phone,
                      balance |-> 0, type |-> body.type,
                      lastTransactionDate |-> NULL]}])

\* the type column lacks NOT NULL
InsertTransactionRowNullableType(db, body) ==
  IF body.amount = NULL
    THEN Throw("NOT NULL constraint failed: transactions.amount", db)
  ELSE IF ~PrimaryKeyHolds({t.id : t \in Range(db.transactions)}, body.id)
    THEN Throw("UNIQUE constraint failed: transactions.id", db)
  ELSE IF ~ForeignKeyHolds(db, body.customerId)
    THEN Throw("FOREIGN KEY constraint failed", db)
  ELSE Ok([db EXCEPT !.transactions =
             Append(@, [id |-> body.id, type |-> body.type, amount |-> body.amount,
                        date |-> body.date, note |-> body.note,
                        customerId |-> body.customerId])])

\* INSERT OR REPLACE INTO transactions: a row with the id is replaced
InsertTransactionRowOrReplace(db, body) ==
  IF body.type = NULL
    THEN Throw("NOT NULL constraint failed: transactions.type", db)
  ELSE IF body.amount = NULL
    THEN Throw("NOT NULL constraint failed: transactions.amount", db)
  ELSE IF ~ForeignKeyHolds(db, body.customerId)
    THEN Throw("FOREIGN KEY constraint failed", db)
  ELSE Ok([db EXCEPT !.transactions =
             Append(SelectSeq(@, LAMBDA t : t.id # body.id),
                    [id |-> body.id, type |-> body.type, amount |-> body.amount,
                     date |-> body.date, note |-> body.note,
                     customerId |-> body.customerId])])

\* INSERT INTO transactions (id, type, amount, date, note, customerId) VALUES (...)
InsertTransactionRow(db, body) ==
  IF body.type = NULL
    THEN Throw("NOT NULL constraint failed: transactions.type", db)
  ELSE IF body.amount = NULL
    THEN Throw("NOT NULL constraint failed: transactions.amount", db)
  ELSE IF ~PrimaryKeyHolds({t.id : t \in Range(db.transactions)}, body.id)
    THEN Throw("UNIQUE constraint failed: transactions.id", db)
  ELSE IF ~ForeignKeyHolds(db, body.customerId)
    THEN Throw("FOREIGN KEY constraint failed", db)
  ELSE Ok([db EXCEPT !.transactions =
             Append(@, [id |-> body.id, type |-> body.type, amount |-> body.amount,
                        date |-> body.date, note |-> body.note,
                        customerId |-> body.customerId])])

\* let balanceChange = amount: a type outside the four keeps +amount
BalanceChangeDefaultAmount(type, amount) ==
  IF type = <<"TAKE_CREDIT">> THEN -V(amount)
  ELSE IF type = <<"PAYMENT_RECEIVED">> THEN -V(amount)
  ELSE V(amount)

\* let balanceChange = 0; if (type === ...) balanceChange = +-amount
BalanceChange(type, amount) ==
  IF type = <<"GIVE_CREDIT">> THEN V(amount)
  ELSE IF type = <<"TAKE_CREDIT">> THEN -V(amount)
  ELSE IF type = <<"PAYMENT_RECEIVED">> THEN -V(amount)
  ELSE IF type = <<"PAYMENT_MADE">> THEN V(amount)
  ELSE 0

\* SET balance = ?
NewBalanceOverwrite(balance, balanceChange) == balanceChange

\* SET balance = balance + ?
NewBalance(balance, balanceChange) == balance + balanceChange

\* UPDATE customers SET balance = balance + ?, lastTransactionDate = ?
\* without the WHERE clause
UpdateCustomerNoWhere(db, balanceChange, date, customerId, fault) ==
  IF fault = "update" THEN Throw("database or disk is full", db)
  ELSE Ok([db EXCEPT !.customers =
             {[c EXCEPT !.balance = NewBalance(@, balanceChange),
                        !.lastTransactionDate = <<date>>] : c \in @}])

\* the UPDATE with the sign of the change turned for a SUPPLIER
UpdateCustomerSupplierSign(db, balanceChange, date, customerId, fault) ==
  IF fault = "update" THEN Throw("database or disk is full", db)
  ELSE Ok([db EXCEPT !.customers =
             {IF <<c.id>> = customerId
                THEN [c EXCEPT !.balance =
                                 IF c.type = <<"SUPPLIER">>
                                   THEN NewBalance(@, -balanceChange)
                                   ELSE NewBalance(@, balanceChange),
                               !.lastTransactionDate = <<date>>]
                ELSE c : c \in @}])

\* UPDATE customers SET balance = balance + ?, lastTransactionDate = ? WHERE id = ?
\* (fault = "update": the statement throws, e.g. SQLITE_FULL or SQLITE_IOERR)
UpdateCustomer(db, balanceChange, date, customerId, fault) ==
  IF fault = "update" THEN Throw("database or disk is full", db)
  ELSE Ok([db EXCEPT !.customers =
             {IF <<c.id>> = customerId
                THEN [c EXCEPT !.balance = NewBalance(@, balanceChange),
                               !.lastTransactionDate = <<date>>]
                ELSE c : c \in @}])

\* INSERT INTO reminders (..., status, ...): the status of the request is stored
InsertReminderStatusFromBody(db, body) ==
  IF body.title = NULL
    THEN Throw("NOT NULL constraint failed: reminders.title", db)
  ELSE IF ~PrimaryKeyHolds({r.id : r \in Range(db.reminders)}, body.id)
    THEN Throw("UNIQUE constraint failed: reminders.id", db)
  ELSE IF ~ForeignKeyHolds(db, body.customerId)
    THEN Throw("FOREIGN KEY constraint failed", db)
  ELSE Ok([db EXCEPT !.reminders =
             Append(@, [id |-> body.id, title |-> body.title, date |-> body.date,
                        amount |-> body.amount, type |-> body.type,
                        status |-> IF body.status = NULL THEN "UPCOMING"
                                   ELSE V(body.status),
                        customerId |-> body.customerId])])

\* INSERT INTO reminders (id, title, date, amount, type, customerId) VALUES (...)
InsertReminder(db, body) ==
  IF body.title = NULL
    THEN Throw("NOT NULL constraint failed: reminders.title", db)
  ELSE IF ~PrimaryKeyHolds({r.id : r \in Range(db.reminders)}, body.id)
    THEN Throw("UNIQUE constraint failed: reminders.id", db)
  ELSE IF ~ForeignKeyHolds(db, body.customerId)
    THEN Throw("FOREIGN KEY constraint failed", db)
  ELSE Ok([db EXCEPT !.reminders =
             Append(@, [id |-> body.id, title |-> body.title, date |-> body.date,
                        amount |-> body.amount, type |-> body.type,
                        status |-> "UPCOMING", customerId |-> body.customerId])])

\* ------------------------------------------------------------ db.transaction
\* The function given to db.transaction: the INSERT, then, when customerId is
\* truthy, the UPDATE; the first statement that throws ends it.
InsertTransactionBody(db, body, fault) ==
  LET ins == InsertTransactionRow(db, body)
  IN  IF ~ins.ok THEN ins
      ELSE IF Truthy(body.customerId)
        THEN UpdateCustomer(ins.db, BalanceChange(body.type, body.amount),
                            body.date, body.customerId, fault)
        ELSE ins

\* the statements run outside db.transaction: what ran stays
RollbackKeepsWork(before, working) == working

\* What the database holds after the transaction function threw: ROLLBACK
\* restores the tables as they were at BEGIN.
Rollback(before, working) == before

\* insertTransaction(): BEGIN, the function, COMMIT; ROLLBACK and rethrow when
\* the function throws.
InsertTransaction(db, body, fault) ==
  LET r == InsertTransactionBody(db, body, fault)
  IN  IF r.ok THEN r ELSE Throw(r.error, Rollback(db, r.db))

\* ------------------------------------------------------------ responses
\* res.status(201).json(...)
Created == 201

\* express's default error handler, reached when a handler throws
ServerError == 500

\* res.json(...)
Success == 200

\* the handler catches the error and still answers 201
RespondAlwaysCreated(r) ==
  [status |-> Created, error |-> r.error, summary |-> NULL, rows |-> <<>>]

\* what a write handler answers: 201, or the thrown error through express
Respond(r) ==
  [status |-> IF r.ok THEN Created ELSE ServerError, error |-> r.error,
   summary |-> NULL, rows |-> <<>>]

\* ------------------------------------------------------------ GET /api/summary
RECURSIVE SeqSum(_)
SeqSum(s) == IF s = <<>> THEN 0 ELSE Head(s) + SeqSum(Tail(s))

\* SQL SUM over the selected values: NULL when no row is selected
SqlSum(values) == IF values = <<>> THEN NULL ELSE <<SeqSum(values)>>

\* JavaScript  total || 0
OrZero(total) == IF total = NULL \/ total = <<0>> THEN 0 ELSE V(total)

\* SUM(balance) without ABS
AbsMissing(x) == x

\* SQL ABS
Abs(x) == IF x < 0 THEN -x ELSE x

\* the rows of a table in some scan order
RECURSIVE Scan(_)
Scan(rows) ==
  IF rows = {} THEN <<>>
  ELSE LET r == CHOOSE r \in rows : TRUE IN <<r>> \o Scan(rows \ {r})

\* SELECT COUNT(*) instead of SUM(amount)
SelectExpensesCount(db, day) ==
  LET sel == SelectSeq(db.transactions,
                       LAMBDA t : t.type = <<"EXPENSE">> /\ t.date = day)
  IN  IF sel = <<>> THEN NULL ELSE <<Len(sel)>>

\* SUM(amount) of the day without the type = 'EXPENSE' test
SelectExpensesAnyType(db, day) ==
  LET sel == SelectSeq(db.transactions, LAMBDA t : t.date = day)
  IN  SqlSum([i \in 1..Len(sel) |-> V(sel[i].amount)])

\* SELECT SUM(amount) FROM transactions WHERE type = 'EXPENSE' AND date = ?
SelectExpenses(db, day) ==
  LET sel == SelectSeq(db.transactions,
                       LAMBDA t : t.type = <<"EXPENSE">> /\ t.date = day)
  IN  SqlSum([i \in 1..Len(sel) |-> V(sel[i].amount)])

\* SELECT SUM(balance) FROM customers WHERE balance > 0
SelectIGet(db) ==
  LET sel == Scan({c \in db.customers : c.balance > 0})
  IN  SqlSum([i \in 1..Len(sel) |-> sel[i].balance])

\* SUM(ABS(balance)) with the WHERE clause of the iGet query
SelectTheyGetPositive(db) ==
  LET sel == Scan({c \in db.customers : c.balance > 0})
  IN  SqlSum([i \in 1..Len(sel) |-> Abs(sel[i].balance)])

\* SELECT SUM(ABS(balance)) FROM customers WHERE balance < 0
SelectTheyGet(db) ==
  LET sel == Scan({c \in db.customers : c.balance < 0})
  IN  SqlSum([i \in 1..Len(sel) |-> Abs(sel[i].balance)])

\* theyGet read from the iGet row
SummaryTheyGetFromIGet(db, day) ==
  [todayExpense |-> OrZero(SelectExpenses(db, day)),
   iGet |-> OrZero(SelectIGet(db)),
   theyGet |-> OrZero(SelectIGet(db))]

Summary(db, day) ==
  [todayExpense |-> OrZero(SelectExpenses(db, day)),
   iGet |-> OrZero(SelectIGet(db)),
   theyGet |-> OrZero(SelectTheyGet(db))]

\* ---------------------------------------------------------------- state
\* useState(...) of the dialog: closed, an empty form, no customer selected;
\* a field the object literal does not give is NULL
ClientInit ==
  /\ showAddTransaction = [show |-> FALSE, type |-> NULL, customerId |-> NULL]
  /\ newTransaction = [amount |-> "", note |-> "", date |-> 1]
  /\ selectedCustomer = NULL

Init ==
  /\ customers = {}
  /\ transactions = <<>>
  /\ reminders = <<>>
  /\ request = [op |-> "none", body |-> [day |-> 0]]
  /\ response = [status |-> 0, error |-> "", summary |-> NULL, rows |-> <<>>]
  /\ inflight = {}
  /\ ClientInit

CurrentDb == Db(customers, transactions, reminders)

Store(db) ==
  /\ customers' = db.customers
  /\ transactions' = db.transactions
  /\ reminders' = db.reminders

\* app.post("/api/customers")
PostCustomers(body) ==
  LET r == InsertCustomer(CurrentDb, body)
  IN  /\ Store(r.db)
      /\ request' = [op |-> "POST /api/customers", body |-> body]
      /\ response' = Respond(r)

\* app.post("/api/transactions")
PostTransactions(body, fault) ==
  LET r == InsertTransaction(CurrentDb, body, fault)
  IN  /\ Store(r.db)
      /\ request' = [op |-> "POST /api/transactions", body |-> body]
      /\ response' = Respond(r)

\* app.post("/api/reminders")
PostReminders(body) ==
  LET r == InsertReminder(CurrentDb, body)
  IN  /\ Store(r.db)
      /\ request' = [op |-> "POST /api/reminders", body |-> body]
      /\ response' = Respond(r)

\* Instants are counted in hours from 00:00 UTC of day 0, calendar days in
\* whole days; tz is the offset of a wall clock from UTC in hours.
HoursPerDay == 24

\* new Date().toISOString().split('T')[0]: the calendar day of the instant
\* in UTC
UtcDate(now) == now \div HoursPerDay

\* the calendar day of the instant on a wall clock tz hours ahead of UTC
LocalDate(now, tz) == (now + tz) \div HoursPerDay

\* app.get("/api/summary"); now is the instant new Date() gives when the
\* handler runs and tz the time zone the server runs in.  The request record
\* keeps the handler's today (day) and the server's wall-clock day (localDay).
GetSummary(now, tz) ==
  LET today == UtcDate(now)
  IN  /\ request' = [op |-> "GET /api/summary",
                     body |-> [day |-> today, localDay |-> LocalDate(now, tz)]]
      /\ response' = [status |-> Success, error |-> "",
                      summary |-> <<Summary(CurrentDb, today)>>, rows |-> <<>>]
      /\ UNCHANGED <<customers, transactions, reminders>>

\* ------------------------------------------------------------ the list reads
\* ORDER BY key ASC, key giving each row its sort key as a number: the orders
\* that respect the keys, built from a row with the least key onwards; SQL
\* leaves the order of rows with equal keys open
RECURSIVE OrderBy(_, _)
OrderBy(rows, key) ==
  IF rows = {} THEN {<<>>}
  ELSE LET least == CHOOSE r \in rows : \A q \in rows : key[r] <= key[q]
       IN  UNION {{<<r>> \o s : s \in OrderBy(rows \ {r}, key)} :
                    r \in {r \in rows : key[r] = key[least]}}

\* the names the requests use, in the order of SQLite's BINARY collation
Names == <<"a", "b", "n">>

NameRank(name) == CHOOSE i \in 1..Len(Names) : Names[i] = name

\* LIMIT 50
ListLimit == 50

\* the first n rows of a result
Limit(s, n) == SubSeq(s, 1, IF Len(s) < n THEN Len(s) ELSE n)

ListResponse(rows) ==
  [status |-> Success, error |-> "", summary |-> NULL, rows |-> rows]

\* SELECT * FROM customers WHERE type = 'CUSTOMER' ORDER BY name ASC
GetCustomersOfTypeCustomer ==
  /\ \E rows \in OrderBy({c \in customers : c.type = <<"CUSTOMER">>},
                          [c \in customers |-> NameRank(V(c.name))]) :
       response' = ListResponse(rows)
  /\ request' = [op |-> "GET /api/customers", body |-> [day |-> 0]]
  /\ UNCHANGED <<customers, transactions, reminders>>

\* app.get("/api/customers"): SELECT * FROM customers ORDER BY name ASC
GetCustomers ==
  /\ \E rows \in OrderBy(customers, [c \in customers |-> NameRank(V(c.name))]) :
       response' = ListResponse(rows)
  /\ request' = [op |-> "GET /api/customers", body |-> [day |-> 0]]
  /\ UNCHANGED <<customers, transactions, reminders>>

\* the first 50 rows of the table, then ORDER BY date DESC
GetTransactionsLimitThenOrder ==
  /\ \E rows \in OrderBy(Range(Limit(transactions, ListLimit)),
                          [t \in Range(transactions) |-> -t.date]) :
       response' = ListResponse(rows)
  /\ request' = [op |-> "GET /api/transactions", body |-> [day |-> 0]]
  /\ UNCHANGED <<customers, transactions, reminders>>

\* app.get("/api/transactions"):
\* SELECT * FROM transactions ORDER BY date DESC LIMIT 50
\* (descending: ascending in the negated date)
GetTransactions ==
  /\ \E rows \in OrderBy(Range(transactions),
                          [t \in Range(transactions) |-> -t.date]) :
       response' = ListResponse(Limit(rows, ListLimit))
  /\ request' = [op |-> "GET /api/transactions", body |-> [day |-> 0]]
  /\ UNCHANGED <<customers, transactions, reminders>>

\* app.get("/api/reminders"): SELECT * FROM reminders ORDER BY date ASC
GetReminders ==
  /\ \E rows \in OrderBy(Range(reminders),
                          [r \in Range(reminders) |-> r.date]) :
       response' = ListResponse(rows)
  /\ request' = [op |-> "GET /api/reminders", body |-> [day |-> 0]]
  /\ UNCHANGED <<customers, transactions, reminders>>

\* ---------------------------------------------------------------- requests
Faults == {"none", "update"}

Tx(type, amount, date, customerId) ==
  [type |-> type, amount |-> amount, date |-> date, customerId |-> customerId]

\* ids are opaque: a request carries the next unused id, or replays the id of
\* the row recorded last
TxIds == {Len(transactions) + 1} \cup (IF transactions = <<>> THEN {} ELSE {Len(transactions)})

ReminderIds == {Len(reminders) + 1} \cup (IF reminders = <<>> THEN {} ELSE {Len(reminders)})

TxBody(id, k) ==
  [id |-> id, type |-> k.type, amount |-> k.amount, date |-> k.date,
   note |-> NULL, customerId |-> k.customerId]

CreateCustomer(ids, names, types) ==
  /\ \E id \in ids, name \in names, type \in types :
       PostCustomers([id |-> id, name |-> name, phone |-> NULL, type |-> type])
  /\ UNCHANGED <<inflight, clientVars>>

CreateTransaction(kinds) ==
  /\ Len(transactions) < MaxTx
  /\ \E id \in TxIds, k \in kinds, fault \in Faults :
       PostTransactions(TxBody(id, k), fault)
  /\ UNCHANGED <<inflight, clientVars>>

CreateReminder(refs) ==
  /\ Len(reminders) < MaxReminders
  /\ \E id \in ReminderIds, title \in {NULL, <<"r">>}, ref \in refs,
        status \in {NULL, <<"COMPLETED">>} :
       PostReminders([id |-> id, title |-> title, date |-> 1, amount |-> NULL,
                      type |-> <<"COLLECTION">>, status |-> status,
                      customerId |-> ref])
  /\ UNCHANGED <<inflight, clientVars>>

\* the instants a summary is read at: 06:00 and 20:00 UTC of day 1 and 02:00
\* UTC of day 2
Instants == {30, 44, 50}

\* the server runs on UTC or six hours ahead of it
TzOffsets == {0, 6}

ReadSummary ==
  /\ \E now \in Instants, tz \in TzOffsets : GetSummary(now, tz)
  /\ UNCHANGED <<inflight, clientVars>>

ListCustomers == GetCustomers /\ UNCHANGED <<inflight, clientVars>>

ListTransactions == GetTransactions /\ UNCHANGED <<inflight, clientVars>>

ListReminders == GetReminders /\ UNCHANGED <<inflight, clientVars>>

\* ------------------------------------------------ the ledger: every write path
LedgerCustomerIds == {"", "c1"}

LedgerTxKinds ==
  {Tx(<<"GIVE_CREDIT">>, <<100>>, 1, <<"c1">>),
   Tx(<<"PAYMENT_RECEIVED">>, <<40>>, 2, <<"c1">>),
   Tx(<<"TAKE_CREDIT">>, <<100>>, 2, <<"c1">>),
   Tx(<<"PAYMENT_MADE">>, <<40>>, 1, <<"c1">>),
   Tx(<<"EXPENSE">>, <<40>>, 1, NULL),
   Tx(<<"EXPENSE">>, <<100>>, 2, NULL),
   Tx(<<"EXPENSE">>, <<40>>, 2, <<"c1">>),
   Tx(<<"OTHER">>, <<100>>, 1, <<"c1">>),
   Tx(<<"GIVE_CREDIT">>, <<100>>, 1, <<"">>),
   Tx(NULL, <<40>>, 1, <<"c1">>),
   Tx(<<"GIVE_CREDIT">>, NULL, 1, <<"c1">>)}

Next ==
  \/ CreateCustomer(LedgerCustomerIds, {NULL, <<"n">>}, {<<"CUSTOMER">>})
  \/ CreateTransaction(LedgerTxKinds)
  \/ CreateReminder({<<"c1">>})
  \/ ReadSummary

Spec == Init /\ [][Next]_vars

\* ------------------------------------------------ the summary: two customers
SummaryCustomerIds == {"c1", "c2"}

SummaryTxKinds ==
  {Tx(<<"GIVE_CREDIT">>, <<100>>, 1, <<"c1">>),
   Tx(<<"TAKE_CREDIT">>, <<40>>, 2, <<"c1">>),
   Tx(<<"PAYMENT_MADE">>, <<40>>, 1, <<"c2">>),
   Tx(<<"PAYMENT_RECEIVED">>, <<100>>, 2, <<"c2">>),
   Tx(<<"EXPENSE">>, <<40>>, 1, NULL),
   Tx(<<"EXPENSE">>, <<100>>, 1, NULL),
   Tx(<<"EXPENSE">>, <<40>>, 2, NULL)}

NextSummary ==
  \/ CreateCustomer(SummaryCustomerIds, {NULL, <<"n">>}, {<<"CUSTOMER">>})
  \/ CreateTransaction(SummaryTxKinds)
  \/ ReadSummary

SpecSummary == Init /\ [][NextSummary]_vars

\* ------------------------------------------------ every route of the server
RoutesCustomerIds == {"c1", "c2"}

\* with an unknown type, and amounts the handler does not check
RoutesTxKinds ==
  {Tx(<<"GIVE_CREDIT">>, <<100>>, 1, <<"c1">>),
   Tx(<<"TAKE_CREDIT">>, <<40>>, 2, <<"c2">>),
   Tx(<<"OTHER">>, <<100>>, 2, <<"c1">>),
   Tx(<<"OTHER">>, <<40>>, 1, NULL),
   Tx(<<"GIVE_CREDIT">>, <<-40>>, 2, <<"c1">>),
   Tx(<<"EXPENSE">>, <<0>>, 1, NULL)}

NextRoutes ==
  \/ CreateCustomer(RoutesCustomerIds, {NULL, <<"n">>}, {<<"CUSTOMER">>})
  \/ CreateTransaction(RoutesTxKinds)
  \/ CreateReminder({NULL, <<"c1">>})
  \/ ReadSummary
  \/ ListCustomers
  \/ ListTransactions
  \/ ListReminders

SpecRoutes == Init /\ [][NextRoutes]_vars

\* ------------------------------------------------ the customer list: names, types
CustomerListIds == {"c1", "c2"}

CustomerListNames == {NULL, <<"a">>, <<"b">>}

\* the two types of the client, and a request without type
CustomerListTypes == {<<"CUSTOMER">>, <<"SUPPLIER">>, NULL}

CustomerListTxKinds ==
  {Tx(<<"GIVE_CREDIT">>, <<100>>, 1, <<"c1">>),
   Tx(<<"TAKE_CREDIT">>, <<40>>, 2, <<"c2">>)}

NextCustomerList ==
  \/ CreateCustomer(CustomerListIds, CustomerListNames, CustomerListTypes)
  \/ CreateTransaction(CustomerListTxKinds)
  \/ ListCustomers

SpecCustomerList == Init /\ [][NextCustomerList]_vars

\* ------------------------------------------------ customers of every type
TypesCustomerIds == {"c1", "c2"}

\* the two types of the client, and a request without type
CustomerTypes == {<<"CUSTOMER">>, <<"SUPPLIER">>, NULL}

TypesTxKinds ==
  {Tx(<<"GIVE_CREDIT">>, <<100>>, 1, <<"c1">>),
   Tx(<<"PAYMENT_RECEIVED">>, <<40>>, 2, <<"c1">>),
   Tx(<<"TAKE_CREDIT">>, <<40>>, 2, <<"c2">>),
   Tx(<<"EXPENSE">>, <<40>>, 1, <<"c2">>)}

NextTypes ==
  \/ CreateCustomer(TypesCustomerIds, {NULL, <<"n">>}, CustomerTypes)
  \/ CreateTransaction(TypesTxKinds)
  \/ ReadSummary

SpecTypes == Init /\ [][NextTypes]_vars

\* ------------------------------------------------ a log longer than the list
\* The server after ListLimit - 1 create-transactions, one for each of the
\* days 1 .. ListLimit - 1.
InitLongLog ==
  /\ customers = {}
  /\ transactions =
       [i \in 1..(ListLimit - 1) |-> TxBody(i, Tx(<<"EXPENSE">>, <<40>>, i, NULL))]
  /\ reminders = <<>>
  /\ request = [op |-> "POST /api/transactions",
                body |-> TxBody(ListLimit - 1,
                                Tx(<<"EXPENSE">>, <<40>>, ListLimit - 1, NULL))]
  /\ response = [status |-> Created, error |-> "", summary |-> NULL,
                 rows |-> <<>>]
  /\ inflight = {}
  /\ ClientInit

\* dated before every row of the log, on the day of its first row, on a day
\* in its middle, on the day of its last row, and after every row
LongLogTxKinds ==
  {Tx(<<"EXPENSE">>, <<40>>, 0, NULL),
   Tx(<<"EXPENSE">>, <<100>>, 1, NULL),
   Tx(<<"OTHER">>, <<40>>, ListLimit \div 2, NULL),
   Tx(<<"EXPENSE">>, <<100>>, ListLimit - 1, NULL),
   Tx(<<"EXPENSE">>, <<40>>, ListLimit, NULL)}

\* MaxTx more create-transactions
CreateTransactionLongLog ==
  /\ Len(transactions) < ListLimit - 1 + MaxTx
  /\ \E id \in TxIds, k \in LongLogTxKinds :
       PostTransactions(TxBody(id, k), "none")
  /\ UNCHANGED <<inflight, clientVars>>

NextLongLog ==
  \/ CreateTransactionLongLog
  \/ ListTransactions

SpecLongLog == InitLongLog /\ [][NextLongLog]_vars

\* ------------------------------------------------ a customer whose id is ""
EmptyIdCustomerIds == {"", "c1"}

\* zero-delta and signed types, for the customer with id "", for "c1" and
\* without customerId
EmptyIdTxKinds ==
  {Tx(<<"GIVE_CREDIT">>, <<100>>, 1, <<"">>),
   Tx(<<"EXPENSE">>, <<40>>, 2, <<"">>),
   Tx(<<"GIVE_CREDIT">>, <<100>>, 1, <<"c1">>),
   Tx(<<"EXPENSE">>, <<100>>, 2, <<"c1">>),
   Tx(<<"OTHER">>, <<40>>, 2, <<"c1">>),
   Tx(<<"TAKE_CREDIT">>, <<40>>, 2, NULL)}

NextEmptyId ==
  \/ CreateCustomer(EmptyIdCustomerIds, {NULL, <<"n">>}, {<<"CUSTOMER">>})
  \/ CreateTransaction(EmptyIdTxKinds)
  \/ ListCustomers

SpecEmptyId == Init /\ [][NextEmptyId]_vars

\* ------------------------------------------------ requests in flight together
MaxInflight == 2

ConcurrentTxKinds ==
  {Tx(<<"GIVE_CREDIT">>, <<30>>, 1, <<"c1">>),
   Tx(<<"PAYMENT_RECEIVED">>, <<10>>, 2, <<"c1">>),
   Tx(<<"TAKE_CREDIT">>, <<10>>, 1, <<"c1">>),
   Tx(<<"PAYMENT_MADE">>, <<30>>, 2, <<"c1">>),
   Tx(<<"GIVE_CREDIT">>, <<30>>, 2, <<"c2">>)}

\* The server after POST /api/customers for "c1" and "c2" and one
\* GIVE_CREDIT 100 for "c1", with MaxInflight requests received and no
\* handler run yet.
InitConcurrent ==
  /\ customers =
       {[id |-> "c1", name |-> <<"n">>, phone |-> NULL, balance |-> 100,
         type |-> <<"CUSTOMER">>, lastTransactionDate |-> <<1>>],
        [id |-> "c2", name |-> <<"n">>, phone |-> NULL, balance |-> 0,
         type |-> <<"CUSTOMER">>, lastTransactionDate |-> NULL]}
  /\ transactions = <<TxBody(1, Tx(<<"GIVE_CREDIT">>, <<100>>, 1, <<"c1">>))>>
  /\ reminders = <<>>
  /\ request = [op |-> "POST /api/transactions", body |-> transactions[1]]
  /\ response = [status |-> Created, error |-> "", summary |-> NULL,
                 rows |-> <<>>]
  /\ \E kinds \in [2..(MaxInflight + 1) -> ConcurrentTxKinds] :
       inflight = {TxBody(id, kinds[id]) : id \in 2..(MaxInflight + 1)}
  /\ ClientInit

\* the event loop runs the handler of one of the waiting requests
Dispatch ==
  \E body \in inflight :
    /\ PostTransactions(body, "none")
    /\ inflight' = inflight \ {body}
    /\ UNCHANGED clientVars

SpecConcurrent == InitConcurrent /\ [][Dispatch]_vars

\* ------------------------------------------------ the client's dialog
\* what the amount field (<input type="number">) can hold: nothing, or a
\* number as text
AmountTexts == {"", "40"}

\* parseFloat of the text of the amount field; NaN leaves JSON.stringify as
\* null
ParseFloat(text) == IF text = "40" THEN <<40>> ELSE NULL

\* { show: false, type: null }
DialogClosed == [show |-> FALSE, type |-> NULL, customerId |-> NULL]

\* { amount: '', note: '', date: today }
FormBlank == [amount |-> "", note |-> "", date |-> 1]

\* Math.random().toString(36).substr(2, 9): an id no request has used
RandomId ==
  CHOOSE id \in 1..(Len(transactions) + Cardinality(inflight) + 1) :
    id \notin {t.id : t \in Range(transactions) \cup inflight}

\* onClick={() => setSelectedCustomer(customer)} on a row of the fetched list
SelectCustomer ==
  /\ \E c \in customers : selectedCustomer' = <<c.id>>
  /\ UNCHANGED <<customers, transactions, reminders, request, response,
                 inflight, showAddTransaction, newTransaction>>

\* onClick={() => setSelectedCustomer(null)}
CloseCustomer ==
  /\ selectedCustomer # NULL
  /\ selectedCustomer' = NULL
  /\ UNCHANGED <<customers, transactions, reminders, request, response,
                 inflight, showAddTransaction, newTransaction>>

\* setShowAddTransaction({ ...showAddTransaction, show: true, type: 'EXPENSE' })
OpenExpenseKeepsFields ==
  /\ showAddTransaction' =
       [showAddTransaction EXCEPT !.show = TRUE, !.type = <<"EXPENSE">>]
  /\ UNCHANGED <<customers, transactions, reminders, request, response,
                 inflight, newTransaction, selectedCustomer>>

\* setShowAddTransaction({ show: true, type: 'EXPENSE' })
OpenExpense ==
  /\ showAddTransaction' =
       [show |-> TRUE, type |-> <<"EXPENSE">>, customerId |-> NULL]
  /\ UNCHANGED <<customers, transactions, reminders, request, response,
                 inflight, newTransaction, selectedCustomer>>

\* the two buttons of the customer detail modal:
\* setShowAddTransaction({ show: true, type, customerId: selectedCustomer.id })
OpenForCustomer ==
  /\ selectedCustomer # NULL
  /\ \E type \in {<<"PAYMENT_RECEIVED">>, <<"GIVE_CREDIT">>} :
       showAddTransaction' =
         [show |-> TRUE, type |-> type, customerId |-> selectedCustomer]
  /\ UNCHANGED <<customers, transactions, reminders, request, response,
                 inflight, newTransaction, selectedCustomer>>

\* the X of the dialog: setShowAddTransaction({ show: false, type: null })
CloseTransaction ==
  /\ showAddTransaction.show
  /\ showAddTransaction' = DialogClosed
  /\ UNCHANGED <<customers, transactions, reminders, request, response,
                 inflight, newTransaction, selectedCustomer>>

\* onChange of the amount field
ChangeAmount ==
  /\ showAddTransaction.show
  /\ \E text \in AmountTexts :
       newTransaction' = [newTransaction EXCEPT !.amount = text]
  /\ UNCHANGED <<customers, transactions, reminders, request, response,
                 inflight, showAddTransaction, selectedCustomer>>

\* handleAddTransaction up to the fetch: the submit of the dialog's form
\* returns when the amount is empty or no type is set, else sends the request
HandleAddTransaction ==
  /\ showAddTransaction.show
  /\ Len(transactions) + Cardinality(inflight) < MaxTx
  /\ IF newTransaction.amount = "" \/ ~Truthy(showAddTransaction.type)
       THEN inflight' = inflight
       ELSE inflight' = inflight \cup
              {[id |-> RandomId,
                type |-> showAddTransaction.type,
                amount |-> ParseFloat(newTransaction.amount),
                date |-> newTransaction.date,
                note |-> <<newTransaction.note>>,
                customerId |-> showAddTransaction.customerId]}
  /\ UNCHANGED <<customers, transactions, reminders, request, response,
                 clientVars>>

\* the server handles a sent request and handleAddTransaction goes on after
\* the fetch: when res.ok it closes the dialog and blanks the form
HandleAddTransactionResponse ==
  \E body \in inflight, fault \in Faults :
    /\ PostTransactions(body, fault)
    /\ inflight' = inflight \ {body}
    /\ IF Respond(InsertTransaction(CurrentDb, body, fault)).status \in 200..299
         THEN showAddTransaction' = DialogClosed /\ newTransaction' = FormBlank
         ELSE UNCHANGED <<showAddTransaction, newTransaction>>
    /\ UNCHANGED selectedCustomer

ClientCustomerIds == {"", "c1"}

NextClient ==
  \/ CreateCustomer(ClientCustomerIds, {<<"n">>}, {<<"CUSTOMER">>})
  \/ SelectCustomer
  \/ CloseCustomer
  \/ OpenExpense
  \/ OpenForCustomer
  \/ CloseTransaction
  \/ ChangeAmount
  \/ HandleAddTransaction
  \/ HandleAddTransactionResponse

SpecClient == Init /\ [][NextClient]_vars

\* ================================================================ claims
\* The signed delta of a recorded transaction, from the sign-convention table.
SignedDelta(t) ==
  CASE t.type \in {<<"GIVE_CREDIT">>, <<"PAYMENT_MADE">>} -> V(t.amount)
    [] t.type \in {<<"TAKE_CREDIT">>, <<"PAYMENT_RECEIVED">>} -> 0 - V(t.amount)
    [] OTHER -> 0

\* The rows of the log that carry the customer id, as indices.
Referencing(log, id) == {i \in 1..Len(log) : log[i].customerId = <<id>>}

RECURSIVE DeltaSum(_, _)
DeltaSum(log, idx) ==
  IF idx = {} THEN 0
  ELSE LET i == CHOOSE i \in idx : TRUE
       IN  SignedDelta(log[i]) + DeltaSum(log, idx \ {i})

LedgerSum(log, id) == DeltaSum(log, Referencing(log, id))

\* A step that records one more transaction row, and the row.
RowAdded ==
  /\ Len(transactions') = Len(transactions) + 1
  /\ SubSeq(transactions', 1, Len(transactions)) = transactions

NewRow == transactions'[Len(transactions')]

\* C1: in every reachable state every customer's balance equals the sum of the
\* signed deltas of the recorded transactions whose customerId is its id.
C1_BalanceIsLedgerSum ==
  \A c \in customers : c.balance = LedgerSum(transactions, c.id)

\* C2: a successful create-transaction whose customerId names an existing
\* customer changes that customer's balance by +amount for GIVE_CREDIT and
\* PAYMENT_MADE and by -amount for TAKE_CREDIT and PAYMENT_RECEIVED.
C2_DeltaApplied ==
  [][RowAdded =>
       \A c \in customers :
         (/\ <<c.id>> = NewRow.customerId
          /\ NewRow.type \in {<<"GIVE_CREDIT">>, <<"PAYMENT_MADE">>,
                              <<"TAKE_CREDIT">>, <<"PAYMENT_RECEIVED">>})
         => \E d \in customers' :
              d.id = c.id /\ d.balance = c.balance + SignedDelta(NewRow)]_vars

\* The date of the last recorded row that carries the customer id.
LastDate(log, id) ==
  IF Referencing(log, id) = {} THEN NULL
  ELSE LET last == CHOOSE i \in Referencing(log, id) :
                     \A j \in Referencing(log, id) : j <= i
       IN  <<log[last].date>>

\* The balance and lastTransactionDate update of row t has reached customer c.
UpdateApplied(c, t) ==
  \E d \in customers' :
    /\ d = [c EXCEPT !.balance = c.balance + SignedDelta(t),
                     !.lastTransactionDate = <<t.date>>]

Handled(op) == request'.op = op

Failed == response'.status = ServerError

NothingStored ==
  customers' = customers /\ transactions' = transactions /\ reminders' = reminders

RecordedIds == {transactions[i].id : i \in 1..Len(transactions)}

\* C5: a create-transaction whose id is the id of a recorded transaction is
\* rejected: no row is added and no customer changes; the log never holds
\* two rows with one id.
C5_ReplayRejected ==
  [][/\ (Handled("POST /api/transactions") /\ request'.body.id \in RecordedIds)
          => Failed /\ NothingStored
     /\ \A i, j \in 1..Len(transactions') :
          transactions'[i].id = transactions'[j].id => i = j]_vars

\* A replay of the recorded GIVE_CREDIT 100 was answered with the duplicate
\* error and the balance is still 100.
C5_Witness ==
  /\ request.op = "POST /api/transactions"
  /\ response.error = "UNIQUE constraint failed: transactions.id"
  /\ Len(transactions) = 1
  /\ request.body.id = transactions[1].id
  /\ request.body.type = <<"GIVE_CREDIT">>
  /\ request.body.customerId = <<"c1">>
  /\ \E c \in customers : c.id = "c1" /\ c.balance = 100

\* C7: a create-transaction whose customerId is present and matches no
\* customer fails: no row is recorded and no customer changes.
C7_UnknownCustomerRejected ==
  [][(/\ Handled("POST /api/transactions")
      /\ request'.body.customerId # NULL
      /\ ~ \E c \in customers : <<c.id>> = request'.body.customerId)
       => Failed /\ NothingStored]_vars

\* A well-formed create-transaction for "c1" was answered with the
\* foreign-key error while only another customer exists.
C7_Witness ==
  /\ request.op = "POST /api/transactions"
  /\ request.body.customerId = <<"c1">>
  /\ response.error = "FOREIGN KEY constraint failed"
  /\ customers # {}
  /\ ~ \E c \in customers : c.id = "c1"
  /\ transactions = <<>>

\* C8: a create-transaction whose type or amount is absent fails, records no
\* row and changes no customer.
C8_AbsentTypeOrAmountRejected ==
  [][(/\ Handled("POST /api/transactions")
      /\ (request'.body.type = NULL \/ request'.body.amount = NULL))
       => Failed /\ NothingStored]_vars

\* A request without amount for an existing customer was answered with the
\* NOT NULL error.
C8_Witness ==
  /\ request.op = "POST /api/transactions"
  /\ request.body.amount = NULL
  /\ response.status = ServerError
  /\ response.error = "NOT NULL constraint failed: transactions.amount"
  /\ \E c \in customers : c.id = "c1"

\* The write of the handled request is in the store.
Committed ==
  \/ /\ Handled("POST /api/customers")
     /\ \E c \in customers' \ customers : c.id = request'.body.id
     /\ transactions' = transactions /\ reminders' = reminders
  \/ /\ Handled("POST /api/transactions")
     /\ RowAdded /\ NewRow.id = request'.body.id
     /\ reminders' = reminders
  \/ /\ Handled("POST /api/reminders")
     /\ Len(reminders') = Len(reminders) + 1
     /\ reminders'[Len(reminders')].id = request'.body.id
     /\ customers' = customers /\ transactions' = transactions

IsWrite ==
  request'.op \in {"POST /api/customers", "POST /api/transactions",
                   "POST /api/reminders"}

\* C9: for create customer, create transaction and create reminder, 201 is
\* answered only when the write is committed, and a request that fails is
\* answered with a non-2xx status and leaves customers, transactions and
\* reminders exactly as they were.
C9_AckOnlyCommitted ==
  [][IsWrite =>
       /\ response'.status = Created => Committed
       /\ ~Committed => response'.status \notin 200..299 /\ NothingStored]_vars

\* A create-reminder failed after a customer and a transaction were stored.
C9_Witness ==
  /\ request.op = "POST /api/reminders"
  /\ response.status = ServerError
  /\ customers # {} /\ transactions # <<>>

\* C6: a create-transaction of type EXPENSE without customerId leaves every
\* customer's balance as it was and raises the todayExpense of the day of
\* its date by exactly its amount.
C6_ExpenseFrame ==
  [][(/\ Handled("POST /api/transactions")
      /\ response'.status = Created
      /\ request'.body.type = <<"EXPENSE">>
      /\ request'.body.customerId = NULL)
       => /\ customers' = customers
          /\ Summary(Db(customers', transactions', reminders'),
                     request'.body.date).todayExpense
             = Summary(CurrentDb, request'.body.date).todayExpense
               + V(request'.body.amount)]_vars

\* The summary of day 1 shows the EXPENSE 40 recorded after a GIVE_CREDIT 100,
\* and the customer still has balance 100.
C6_Witness ==
  /\ request.op = "GET /api/summary" /\ request.body.day = 1
  /\ Len(transactions) = 2
  /\ transactions[2].type = <<"EXPENSE">> /\ transactions[2].customerId = NULL
  /\ transactions[2].date = 1
  /\ V(response.summary).todayExpense = 40
  /\ \E c \in customers : c.balance = 100

\* what the customers owe the owner, and what the owner owes them, summed
\* one customer at a time
RECURSIVE Receivable(_)
Receivable(rows) ==
  IF rows = {} THEN 0
  ELSE LET c == CHOOSE c \in rows : TRUE
       IN  (IF c.balance > 0 THEN c.balance ELSE 0) + Receivable(rows \ {c})

RECURSIVE Payable(_)
Payable(rows) ==
  IF rows = {} THEN 0
  ELSE LET c == CHOOSE c \in rows : TRUE
       IN  (IF c.balance < 0 THEN 0 - c.balance ELSE 0) + Payable(rows \ {c})

TotalReceivable == Receivable(customers)

TotalPayable == Payable(customers)

\* C10: get-summary answers iGet = the sum of balance over the customers with
\* balance > 0 and theyGet = the sum of |balance| over the customers with
\* balance < 0, of the balances stored when the handler runs.
C10_SummaryTotals ==
  request.op = "GET /api/summary" =>
    /\ response.status = Success
    /\ V(response.summary).iGet = TotalReceivable
    /\ V(response.summary).theyGet = TotalPayable

\* A summary read with both customers owing the owner money.
C10_Witness ==
  /\ request.op = "GET /api/summary"
  /\ \A id \in SummaryCustomerIds : \E c \in customers : c.id = id /\ c.balance < 0
  /\ V(response.summary).theyGet = 140

\* C4: when several create-transaction requests are in flight together, after
\* the last of their handlers has run, in whatever order, every request is
\* recorded and each customer's balance is its balance before plus the deltas
\* of all of them.
C4_NoLostUpdate ==
  inflight = {} =>
    /\ Len(transactions) = MaxInflight + 1
    /\ \A c \in customers :
         c.balance = (IF c.id = "c1" THEN 100 ELSE 0)
                     + DeltaSum(transactions,
                                Referencing(transactions, c.id) \ {1})

\* +30 and -10 on balance 100, the -10 handled first.
C4_Witness ==
  /\ inflight = {}
  /\ Len(transactions) = 3
  /\ transactions[2].type = <<"PAYMENT_RECEIVED">>
  /\ transactions[3].type = <<"GIVE_CREDIT">>
  /\ \E c \in customers : c.id = "c1" /\ c.balance = 120

\* the sum of the stored balances, one customer at a time
RECURSIVE BalanceSum(_)
BalanceSum(rows) ==
  IF rows = {} THEN 0
  ELSE LET c == CHOOSE c \in rows : TRUE
       IN  c.balance + BalanceSum(rows \ {c})

\* C11: for every reachable customer population the summary's iGet minus its
\* theyGet (totalReceivable - totalPayable) equals the sum of all customers'
\* balances.
C11_NetIsBalanceSum ==
  request.op = "GET /api/summary" =>
    V(response.summary).iGet - V(response.summary).theyGet
      = BalanceSum(customers)

\* A summary read with one customer owing 100 and the owner owing another 100.
C11_Witness ==
  /\ request.op = "GET /api/summary"
  /\ \E c \in customers : c.id = "c1" /\ c.balance = 100
  /\ \E c \in customers : c.id = "c2" /\ c.balance = -100
  /\ V(response.summary).iGet = 100
  /\ V(response.summary).theyGet = 100

\* C12: get-summary answers a number for every aggregate over no rows: iGet
\* is 0 when no customer has a positive balance, theyGet is 0 when none has a
\* negative balance (so both are 0 when there are no customers), todayExpense
\* is 0 when no EXPENSE row carries today's date, and the answer is a 200
\* with a summary, never an error.
C12_EmptyAggregatesAreZero ==
  request.op = "GET /api/summary" =>
    /\ response.status = Success /\ response.error = ""
    /\ response.summary # NULL
    /\ (~ \E c \in customers : c.balance > 0)
         => V(response.summary).iGet = 0
    /\ (~ \E c \in customers : c.balance < 0)
         => V(response.summary).theyGet = 0
    /\ (~ \E i \in 1..Len(transactions) :
            /\ transactions[i].type = <<"EXPENSE">>
            /\ transactions[i].date = request.body.day)
         => V(response.summary).todayExpense = 0

\* A summary of day 1 read with no customers and only an EXPENSE of day 2.
C12_Witness ==
  /\ request.op = "GET /api/summary" /\ request.body.day = 1
  /\ customers = {}
  /\ Len(transactions) = 1 /\ transactions[1].type = <<"EXPENSE">>
  /\ transactions[1].date = 2
  /\ V(response.summary) = [todayExpense |-> 0, iGet |-> 0, theyGet |-> 0]

\* the amounts of the recorded EXPENSE rows of a day, summed row by row
RECURSIVE ExpenseSum(_, _)
ExpenseSum(log, day) ==
  IF log = <<>> THEN 0
  ELSE (IF Head(log).type = <<"EXPENSE">> /\ Head(log).date = day
          THEN V(Head(log).amount) ELSE 0)
       + ExpenseSum(Tail(log), day)

\* C13 as stated: todayExpense is the sum of amount over exactly the recorded
\* EXPENSE rows whose date is today's calendar date, today being the server's
\* local date at query time.
C13_TodayExpenseOfLocalDate ==
  request.op = "GET /api/summary" =>
    V(response.summary).todayExpense
      = ExpenseSum(transactions, request.body.localDay)

\* C13: todayExpense is the sum of amount over exactly the recorded EXPENSE
\* rows whose date is today's calendar date, today being the UTC date at
\* query time (whatever time zone the server runs in).
C13_TodayExpenseOfUtcDate ==
  request.op = "GET /api/summary" =>
    V(response.summary).todayExpense
      = ExpenseSum(transactions, request.body.day)

\* A summary read at 20:00 UTC of day 1 on a server whose wall clock already
\* shows day 2 answers the 40 + 100 of the two EXPENSE rows of day 1.
C13_Witness ==
  /\ request.op = "GET /api/summary"
  /\ request.body.day = 1 /\ request.body.localDay = 2
  /\ Len(transactions) = 2
  /\ \A i \in 1..2 : transactions[i].type = <<"EXPENSE">> /\ transactions[i].date = 1
  /\ V(response.summary).todayExpense = 140

\* C14: a list-customers handled right after a successful create-customer
\* answers a list that contains the created customer with balance 0 and
\* lastTransactionDate null, whatever type the request supplied.
C14_CreatedCustomerListed ==
  [][(/\ request.op = "POST /api/customers"
      /\ response.status = Created
      /\ Handled("GET /api/customers"))
       => /\ response'.status = Success
          /\ \E i \in 1..Len(response'.rows) :
               /\ response'.rows[i].id = request.body.id
               /\ response'.rows[i].balance = 0
               /\ response'.rows[i].lastTransactionDate = NULL]_vars

\* The list shows a customer that owes 100 and, before it, a SUPPLIER with
\* balance 0 and no lastTransactionDate.
C14_Witness ==
  /\ request.op = "GET /api/customers"
  /\ Len(response.rows) = 2
  /\ response.rows[1].type = <<"SUPPLIER">>
  /\ response.rows[1].name = <<"a">>
  /\ response.rows[1].balance = 0
  /\ response.rows[1].lastTransactionDate = NULL
  /\ response.rows[2].name = <<"b">>
  /\ response.rows[2].balance = 100

\* C15: in every reachable state a customer's lastTransactionDate is null when
\* no recorded transaction references the customer, and otherwise is the date
\* of the referencing transaction committed last, whether or not that date
\* is the latest one.
C15_LastDateIsLatestRow ==
  \A c \in customers : c.lastTransactionDate = LastDate(transactions, c.id)

\* C16: every recorded transaction has a positive amount; no reachable state
\* has a row in the transaction log whose amount is zero or negative.
C16_AmountsPositive ==
  \A i \in 1..Len(transactions) : V(transactions[i].amount) > 0

\* C17: the transaction log is append-only and its rows are immutable: every
\* step of every operation, successful or failed, leaves each recorded row in
\* its place with all its fields; the log only grows at its end.
C17_AppendOnly ==
  [][/\ Len(transactions') >= Len(transactions)
     /\ \A i \in 1..Len(transactions) : transactions'[i] = transactions[i]]_vars

\* A create-transaction that reused the id of the recorded row with another
\* type failed, and the recorded row is as it was written.
C17_Witness ==
  /\ request.op = "POST /api/transactions"
  /\ response.status = ServerError
  /\ Len(transactions) = 1
  /\ request.body.id = transactions[1].id
  /\ request.body.type = <<"TAKE_CREDIT">>
  /\ transactions[1].type = <<"GIVE_CREDIT">>
  /\ transactions[1].amount = <<100>>

KnownTypes ==
  {<<"GIVE_CREDIT">>, <<"TAKE_CREDIT">>, <<"PAYMENT_RECEIVED">>,
   <<"PAYMENT_MADE">>, <<"EXPENSE">>}

\* C18: a create-transaction whose type is none of GIVE_CREDIT, TAKE_CREDIT,
\* PAYMENT_RECEIVED, PAYMENT_MADE, EXPENSE is not refused for its type (with
\* an amount, an unused id and no unknown customer it is answered 201 unless
\* the storage fails), and when it succeeds its row is recorded with that
\* type and the balance of every customer, the referenced one included, is
\* as it was.
C18_UnknownTypeZeroDelta ==
  [][(/\ Handled("POST /api/transactions")
      /\ request'.body.type # NULL
      /\ request'.body.type \notin KnownTypes)
       => /\ (/\ request'.body.amount # NULL
              /\ request'.body.id \notin RecordedIds
              /\ \/ request'.body.customerId = NULL
                 \/ \E c \in customers : <<c.id>> = request'.body.customerId)
               => \/ response'.status = Created
                  \/ response'.error = "database or disk is full"
          /\ response'.status = Created
               => /\ RowAdded
                  /\ NewRow.id = request'.body.id
                  /\ NewRow.type = request'.body.type
                  /\ \A c \in customers :
                       \E d \in customers' :
                         d.id = c.id /\ d.balance = c.balance]_vars

\* A transaction of type OTHER for "c1" was recorded after a GIVE_CREDIT 100,
\* and the balance of "c1" is still 100.
C18_Witness ==
  /\ request.op = "POST /api/transactions"
  /\ response.status = Created
  /\ request.body.type = <<"OTHER">>
  /\ request.body.customerId = <<"c1">>
  /\ Len(transactions) = 2
  /\ transactions[2].type = <<"OTHER">>
  /\ transactions[2].amount = <<100>>
  /\ \E c \in customers : c.id = "c1" /\ c.balance = 100

\* C19: a customer's balance and lastTransactionDate are changed by
\* create-transaction only: a step of create-customer (one that reuses an id
\* included), of create-reminder, of a list read or of the summary read
\* leaves the balance and the lastTransactionDate of every existing customer
\* as they were.
C19_OnlyTransactionsMoveBalance ==
  [][~Handled("POST /api/transactions")
       => \A c \in customers :
            \E d \in customers' :
              /\ d.id = c.id
              /\ d.balance = c.balance
              /\ d.lastTransactionDate = c.lastTransactionDate]_vars

\* A create-customer reusing the id of "c1" failed; "c1" still has balance 100
\* and the date of its transaction.
C19_Witness ==
  /\ request.op = "POST /api/customers"
  /\ request.body.id = "c1" /\ request.body.name # NULL
  /\ response.error = "UNIQUE constraint failed: customers.id"
  /\ \E c \in customers :
       c.id = "c1" /\ c.balance = 100 /\ c.lastTransactionDate = <<1>>

\* C20: a successful create-transaction adds exactly one row to the
\* transaction log and changes at most one customer, the one whose id is the
\* transaction's customerId: every other customer is as it was, no customer
\* appears or disappears, and every reminder is as it was.
C20_OneRowOneCustomer ==
  [][(Handled("POST /api/transactions") /\ response'.status = Created)
       => /\ RowAdded
          /\ reminders' = reminders
          /\ {d.id : d \in customers'} = {c.id : c \in customers}
          /\ Cardinality(customers') = Cardinality(customers)
          /\ \A c \in customers :
               <<c.id>> # request'.body.customerId => c \in customers']_vars

\* A TAKE_CREDIT 40 for "c2" was recorded: "c1" still has the balance 100 and
\* the date of its own transaction, and the reminder is there.
C20_Witness ==
  /\ request.op = "POST /api/transactions"
  /\ response.status = Created
  /\ request.body.customerId = <<"c2">>
  /\ Len(transactions) = 2
  /\ \E c \in customers :
       c.id = "c1" /\ c.balance = 100 /\ c.lastTransactionDate = <<1>>
  /\ \E c \in customers :
       c.id = "c2" /\ c.balance = -40 /\ c.lastTransactionDate = <<2>>
  /\ Len(reminders) = 1

\* The tables InitConcurrent starts from.
BeforeInflight ==
  Db({[id |-> "c1", name |-> <<"n">>, phone |-> NULL, balance |-> 100,
       type |-> <<"CUSTOMER">>, lastTransactionDate |-> <<1>>],
      [id |-> "c2", name |-> <<"n">>, phone |-> NULL, balance |-> 0,
       type |-> <<"CUSTOMER">>, lastTransactionDate |-> NULL]},
     <<TxBody(1, Tx(<<"GIVE_CREDIT">>, <<100>>, 1, <<"c1">>))>>, <<>>)

\* The tables after committing the requests one after the other in the order
\* of their ids.
RECURSIVE CommitInIdOrder(_, _)
CommitInIdOrder(db, reqs) ==
  IF reqs = {} THEN db
  ELSE LET r == CHOOSE r \in reqs : \A q \in reqs : r.id <= q.id
       IN  CommitInIdOrder(InsertTransaction(db, r, "none").db, reqs \ {r})

\* the requests committed since InitConcurrent
CommittedSince == {transactions[i] : i \in 2..Len(transactions)}

\* C21: the balance a customer has after create-transaction requests were
\* committed does not depend on the order they were committed in: in whatever
\* order the handlers ran, each customer's balance is the one that committing
\* the same requests in the order of their ids gives (lastTransactionDate may
\* differ).
C21_OrderIndependentBalance ==
  \A c \in customers :
    \E d \in CommitInIdOrder(BeforeInflight, CommittedSince).customers :
      d.id = c.id /\ d.balance = c.balance

\* +30 of day 1 and -10 of day 2 for "c1", committed against the order of
\* their ids: the balance is 120 as in the other order, the
\* lastTransactionDate is the one of the request committed last.
C21_Witness ==
  /\ inflight = {}
  /\ Len(transactions) = 3
  /\ transactions[2].id > transactions[3].id
  /\ transactions[2].type = <<"GIVE_CREDIT">> /\ transactions[2].date = 1
  /\ transactions[3].type = <<"PAYMENT_RECEIVED">> /\ transactions[3].date = 2
  /\ transactions[2].customerId = <<"c1">>
  /\ transactions[3].customerId = <<"c1">>
  /\ \E c \in customers :
       c.id = "c1" /\ c.balance = 120 /\ c.lastTransactionDate = <<2>>
  /\ \E d \in CommitInIdOrder(BeforeInflight, CommittedSince).customers :
       d.id = "c1" /\ d.balance = 120 /\ d.lastTransactionDate = <<1>>

\* The stores that differ from db in customers' type fields only.
Retyped(db) ==
  {[db EXCEPT !.customers = {[c EXCEPT !.type = types[c.id]] : c \in @}] :
     types \in [{c.id : c \in db.customers} -> CustomerTypes]}

\* a store without the type fields
EraseType(db) ==
  [db EXCEPT !.customers = {[c EXCEPT !.type = NULL] : c \in @}]

\* What the handler of the handled request does on the store db.
HandledOn(db) ==
  IF Handled("POST /api/customers") THEN InsertCustomer(db, request'.body)
  ELSE IF Handled("POST /api/transactions")
    THEN InsertTransaction(db, request'.body,
                           IF response'.error = "database or disk is full"
                             THEN "update" ELSE "none")
  ELSE Ok(db)

\* C22: the customers' types have no influence on the balance arithmetic.
\* Whatever request is handled, on every store that differs from the
\* server's in customers' type fields only the same request has the same
\* outcome, leaves the same balances and lastTransactionDates (the two stores
\* again differ in type fields only), and the summary has the same three
\* aggregates.
C22_TypeHasNoInfluence ==
  [][\A twin \in Retyped(CurrentDb) :
       LET r == HandledOn(twin)
       IN  /\ r.ok = (response'.status # ServerError)
           /\ EraseType(r.db)
                = EraseType(Db(customers', transactions', reminders'))
           /\ Handled("GET /api/summary")
                => Summary(twin, request'.body.day) = V(response'.summary)]_vars

\* A summary read with a SUPPLIER that owes 100 and a customer stored without
\* type that is owed 40.
C22_Witness ==
  /\ request.op = "GET /api/summary"
  /\ \E c \in customers : c.id = "c1" /\ c.type = <<"SUPPLIER">> /\ c.balance = 100
  /\ \E c \in customers : c.id = "c2" /\ c.type = NULL /\ c.balance = -40
  /\ V(response.summary).iGet = 100
  /\ V(response.summary).theyGet = 40

\* C23: the server never changes a reminder's status: a reminder is stored
\* with status UPCOMING whatever the request says, and every step of every
\* operation leaves each stored reminder, its status included, as it was,
\* also when its date has passed.
C23_StatusStaysUpcoming ==
  [][/\ Len(reminders') >= Len(reminders)
     /\ \A i \in 1..Len(reminders') :
          /\ reminders'[i].status = "UPCOMING"
          /\ i <= Len(reminders) => reminders'[i] = reminders[i]]_vars

\* The reminder of day 1 is UPCOMING when the summary is read on day 2, after
\* a transaction was recorded.
C23_Witness ==
  /\ request.op = "GET /api/summary" /\ request.body.day = 2
  /\ Len(reminders) = 1
  /\ reminders[1].date = 1
  /\ reminders[1].status = "UPCOMING"
  /\ transactions # <<>>

\* C24: list-transactions answers the most recent transactions, at most 50,
\* newest first: the rows are distinct recorded transactions, as many as
\* there are up to 50, in descending order of date, and no recorded
\* transaction left out has a later date than one that is returned.
C24_NewestFirstAtMostLimit ==
  request.op = "GET /api/transactions" =>
    LET rows == response.rows
    IN  /\ response.status = Success
        /\ Len(rows) <= ListLimit
        /\ Len(rows) = (IF Len(transactions) < ListLimit
                          THEN Len(transactions) ELSE ListLimit)
        /\ Range(rows) \subseteq Range(transactions)
        /\ \A i, j \in 1..Len(rows) :
             /\ i # j => rows[i] # rows[j]
             /\ i < j => rows[i].date >= rows[j].date
        /\ \A t \in Range(transactions) \ Range(rows) :
             \A i \in 1..Len(rows) : t.date <= rows[i].date

\* 51 transactions are recorded, the last one with the latest date: the list
\* has 50 rows, starts with the last recorded one and leaves out the row of
\* day 1.
C24_Witness ==
  /\ request.op = "GET /api/transactions"
  /\ Len(transactions) = ListLimit + 1
  /\ Len(response.rows) = ListLimit
  /\ transactions[ListLimit + 1].date = ListLimit
  /\ response.rows[1] = transactions[ListLimit + 1]
  /\ transactions[1] \notin Range(response.rows)

\* C25: a successful create-transaction that carries the id of an existing
\* customer and has a zero-delta type (EXPENSE or a type outside the table)
\* leaves that customer's balance as it was and sets its lastTransactionDate
\* to the transaction's date.
C25_ZeroDeltaSetsLastDate ==
  [][(/\ Handled("POST /api/transactions")
      /\ response'.status = Created
      /\ request'.body.type \notin {<<"GIVE_CREDIT">>, <<"TAKE_CREDIT">>,
                                    <<"PAYMENT_RECEIVED">>, <<"PAYMENT_MADE">>})
       => \A c \in customers :
            <<c.id>> = request'.body.customerId
              => [c EXCEPT !.lastTransactionDate = <<request'.body.date>>]
                   \in customers']_vars

\* C26: the balance update runs only when the request's customerId is truthy.
\* A create-transaction whose customerId is falsy (absent, or the empty
\* string) changes no customer, whether or not a customer with that id
\* exists; when it succeeds its row is recorded carrying that customerId, and
\* it succeeds whenever it has a type, an amount and an unused id and its
\* customerId is absent or the id of a customer.
C26_FalsyCustomerIdNoUpdate ==
  [][(/\ Handled("POST /api/transactions")
      /\ request'.body.customerId \in {NULL, <<"">>})
       => /\ customers' = customers
          /\ response'.status = Created
               => /\ RowAdded
                  /\ NewRow.id = request'.body.id
                  /\ NewRow.customerId = request'.body.customerId
          /\ (/\ request'.body.type # NULL
              /\ request'.body.amount # NULL
              /\ request'.body.id \notin RecordedIds
              /\ \/ request'.body.customerId = NULL
                 \/ \E c \in customers : <<c.id>> = request'.body.customerId)
               => response'.status = Created]_vars

\* A GIVE_CREDIT 100 with customerId "" was recorded while the customer with
\* id "" exists: its balance is 0 and it has no lastTransactionDate.
C26_Witness ==
  /\ request.op = "POST /api/transactions"
  /\ response.status = Created
  /\ request.body.customerId = <<"">>
  /\ request.body.type = <<"GIVE_CREDIT">>
  /\ Len(transactions) = 1
  /\ transactions[1].customerId = <<"">>
  /\ \E c \in customers :
       c.id = "" /\ c.balance = 0 /\ c.lastTransactionDate = NULL

\* C27: a create-customer whose id is the id of an existing customer fails and
\* leaves the existing customer's name, phone, type, balance and
\* lastTransactionDate (and everything else stored) as they were; no two
\* customers ever have one id.
C27_DuplicateCustomerRejected ==
  [][/\ (/\ Handled("POST /api/customers")
         /\ \E c \in customers : c.id = request'.body.id)
          => Failed /\ NothingStored
     /\ \A c, d \in customers' : c.id = d.id => c = d]_vars

\* A create-customer with id "c1", another name and another type failed;
\* "c1" still has its name, its type, the balance 100 and the date of its
\* transaction.
C27_Witness ==
  /\ request.op = "POST /api/customers"
  /\ request.body.id = "c1"
  /\ request.body.name = <<"b">> /\ request.body.type = <<"SUPPLIER">>
  /\ response.status = ServerError
  /\ response.error = "UNIQUE constraint failed: customers.id"
  /\ \E c \in customers :
       /\ c.id = "c1" /\ c.name = <<"a">> /\ c.type = <<"CUSTOMER">>
       /\ c.balance = 100 /\ c.lastTransactionDate = <<1>>

\* what C28 asks of a transaction the client has sent
WellFormedSubmission(b) ==
  /\ b.amount # NULL
  /\ b.type # NULL
  /\ b.type = <<"EXPENSE">> => b.customerId = NULL
  /\ b.customerId # NULL
       => b.type \in {<<"PAYMENT_RECEIVED">>, <<"GIVE_CREDIT">>}

\* C28: after any sequence of UI actions every transaction the client submits
\* has an amount and a selected type, every EXPENSE it submits is without
\* customerId, and every transaction it submits with a customerId is a
\* PAYMENT_RECEIVED or a GIVE_CREDIT.
C28_ClientSubmissions ==
  /\ \A b \in inflight : WellFormedSubmission(b)
  /\ request.op = "POST /api/transactions" => WellFormedSubmission(request.body)

\* An EXPENSE without customerId is on its way while a customer is selected
\* and a transaction of the customer dialog was recorded before.
C28_Witness ==
  /\ \E b \in inflight : b.type = <<"EXPENSE">> /\ b.customerId = NULL
  /\ selectedCustomer = <<"c1">>
  /\ Len(transactions) = 1
  /\ transactions[1].customerId = <<"c1">>
  /\ transactions[1].type = <<"GIVE_CREDIT">>

====
